---- MODULE Spec2Model ----
(***************************************************************************)
(* A model of streamlit_app.py: the fetch -> normalize -> derive pipeline  *)
(* (fetch_stock_data, process_data, calculate_metrics) and the top-level   *)
(* script, one render pass of which Streamlit runs from top to bottom on   *)
(* every interaction and every auto-refresh tick.                          *)
(*                                                                         *)
(* Prices are numpy float64.  The model draws prices from small integers   *)
(* (all exactly representable) and computes the one inexact expression of  *)
(* the program, (change / prev_close) * 100, in IEEE-754 binary64 with     *)
(* round-to-nearest-even, on 53-bit significands held as limb sequences.   *)
(***************************************************************************)
EXTENDS Integers, Sequences, FiniteSets, TLC

(***************************************************************************)
(* Natural numbers of any size, as sequences of limbs in base 2^13, most   *)
(* significant limb first, without leading zero limbs (<<>> is 0).         *)
(***************************************************************************)
Base == 2^13

Abs(n) == IF n < 0 THEN -n ELSE n

\* number of binary digits of n (0 < n < 2^30)
BitLen(n) == CHOOSE k \in 1..30 : 2^(k - 1) <= n /\ n < 2^k

RECURSIVE BigStrip(_)
BigStrip(x) == IF x = <<>> THEN <<>>
               ELSE IF Head(x) # 0 THEN x ELSE BigStrip(Tail(x))

\* x * c + carry as limbs (c * Base and carry below 2^30); the top limb may
\* exceed the base
RECURSIVE BigMulAdd(_, _, _)
BigMulAdd(x, c, carry) ==
    IF x = <<>> THEN <<carry>>
    ELSE LET n == Len(x)
             t == x[n] * c + carry
         IN  BigMulAdd(SubSeq(x, 1, n - 1), c, t \div Base) \o <<t % Base>>

\* the same with the top limb split, so that every limb is below the base
BigNorm(x) ==
    IF x = <<>> THEN <<>>
    ELSE BigStrip(<<Head(x) \div Base, Head(x) % Base>> \o Tail(x))

BigAddSmall(x, a) == BigNorm(BigMulAdd(x, 1, a))

(***************************************************************************)
(* IEEE-754 binary64 values.  A finite non-zero value is                   *)
(*   [cls |-> "finite", neg, sig, exp]  =  (-1)^neg * sig * 2^exp          *)
(* with sig a 53-bit significand, 2^52 <= sig < 2^53: five limbs           *)
(* <<1, l1, l2, l3, l4>> (1 + 4 * 13 bits).  The exponents the model       *)
(* reaches are far from the overflow and subnormal ranges.                 *)
(***************************************************************************)
\* the significand's bits below its leading one: four limbs
FracBits == 4 * 13
ZeroFrac == <<0, 0, 0, 0>>

FZero == [cls |-> "zero", neg |-> FALSE, sig |-> <<>>, exp |-> 0]
FNaN  == [cls |-> "nan",  neg |-> FALSE, sig |-> <<>>, exp |-> 0]
FInf(neg) == [cls |-> "inf", neg |-> neg, sig |-> <<>>, exp |-> 0]

\* Round to nearest, ties to even: sig * 2^exp with the next lower bit `guard`
\* and `sticky` telling whether anything non-zero lies below that bit.
RoundToNearestEven(sig, exp, guard, sticky) ==
    LET odd == sig[Len(sig)] % 2 = 1
        up  == guard = 1 /\ (sticky \/ odd)
        r   == IF up THEN BigAddSmall(sig, 1) ELSE sig
    IN  IF r[1] = 2        \* 1.11..1 rounded up to 10.00..0
        THEN [sig |-> <<1>> \o ZeroFrac, exp |-> exp + 1]
        ELSE [sig |-> r, exp |-> exp]

\* x (five limbs, top limb in 1..Base-1) shifted right until its top limb is 1,
\* rounded; x stands for the value x * 2^exp.
Normalize(x, exp) ==
    LET t    == BitLen(x[1]) - 1
        m    == 2^t
        sh   == [i \in 1..Len(x) |->
                   (x[i] \div m) + (IF i = 1 THEN 0 ELSE (x[i - 1] % m) * (Base \div m))]
        low  == x[Len(x)] % m          \* the t bits shifted out
        g    == IF t = 0 THEN 0 ELSE low \div (m \div 2)
        st   == t > 0 /\ low % (m \div 2) # 0
    IN  RoundToNearestEven(sh, exp + t, g, st)

\* The float64 holding the integer n exactly (|n| < Base).
FFromInt(n) ==
    IF n = 0 THEN FZero
    ELSE LET r == Normalize(<<Abs(n)>> \o ZeroFrac, -FracBits)
         IN  [cls |-> "finite", neg |-> n < 0, sig |-> r.sig, exp |-> r.exp]

\* the next k limbs of the binary expansion of r / d (0 <= r < d < 2^17)
RECURSIVE FracDigits(_, _, _)
FracDigits(r, d, k) ==
    IF k = 0 THEN <<>>
    ELSE <<(r * Base) \div d>> \o FracDigits((r * Base) % d, d, k - 1)

\* what is left of r after them
RECURSIVE FracRem(_, _, _)
FracRem(r, d, k) == IF k = 0 THEN r ELSE FracRem((r * Base) % d, d, k - 1)

\* float64 a / b for integer-valued a and b (|a|, |b| < Base): long division,
\* then one rounding.  numpy gives nan for 0/0 and a signed infinity for x/0
\* (a RuntimeWarning, not an exception).
FDivInt(a, b) ==
    IF b = 0 THEN (IF a = 0 THEN FNaN ELSE FInf(a < 0))
    ELSE IF a = 0 THEN FZero
    ELSE LET n  == Abs(a)
             d  == Abs(b)
             \* 2^e <= n / d < 2^(e+1)
             e  == CHOOSE k \in -14..14 :
                     IF k >= 0 THEN d * 2^k <= n /\ n < d * 2^(k + 1)
                               ELSE d <= n * 2^(-k) /\ n * 2^(-k) < 2 * d
             n1 == IF e >= 0 THEN n ELSE n * 2^(-e)
             d1 == IF e >= 0 THEN d * 2^e ELSE d
             r0 == n1 - d1
             rk == FracRem(r0, d1, Len(ZeroFrac))
             g  == IF 2 * rk >= d1 THEN 1 ELSE 0
             r  == RoundToNearestEven(<<1>> \o FracDigits(r0, d1, Len(ZeroFrac)),
                                      e - FracBits, g, 2 * rk - g * d1 # 0)
         IN  [cls |-> "finite", neg |-> (a < 0) # (b < 0), sig |-> r.sig, exp |-> r.exp]

\* float64 x * c for a float64 x and an integer c, 0 < c < Base / 2
FMulInt(x, c) ==
    IF x.cls # "finite" THEN x
    ELSE LET r == Normalize(Tail(BigMulAdd(x.sig, c, 0)), x.exp)
         IN  [cls |-> "finite", neg |-> x.neg, sig |-> r.sig, exp |-> r.exp]

(***************************************************************************)
(* Data frames.  A frame is                                                *)
(*   index      "DatetimeIndex" (the timestamps are the index) or          *)
(*              "RangeIndex" (they are a column, after reset_index)        *)
(*   index_name the name of the index ("Date" for daily bars, "Datetime"   *)
(*              for intraday bars), "" for a RangeIndex                    *)
(*   tz         the zone of the timestamps, "naive" when they carry none   *)
(*   columns    the column names, in order                                 *)
(*   rows       one record per bar: t (the timestamp as pandas stores it:  *)
(*              minutes since the epoch, in UTC when the timestamps carry  *)
(*              a zone, wall-clock when naive) and Open, High, Low, Close, *)
(*              Volume                                                     *)
(***************************************************************************)
None == [index |-> "None", index_name |-> "", tz |-> "", columns |-> <<>>, rows |-> <<>>]

IsNone(x) == x.index = "None"

\* an exception raised where a frame was expected
Raised(e) == [index |-> e, index_name |-> "", tz |-> "", columns |-> <<>>, rows |-> <<>>]

IsFrame(x) == x.index \in {"DatetimeIndex", "RangeIndex"}

OHLCV == <<"Open", "High", "Low", "Close", "Volume">>

Range(s) == {s[i] : i \in DOMAIN s}

\* DataFrame.empty
Empty(data) == data.rows = <<>> \/ data.columns = <<>>

\* the instant daylight saving time begins in the model's year (an instant in
\* UTC, minutes since the model's epoch)
DstStart == 7 * 60

\* minutes east of UTC at the instant t
UtcOffset(tz, t) ==
    CASE tz \in {"US/Eastern", "America/New_York"} ->
             IF t < DstStart THEN -(5 * 60) ELSE -(4 * 60)
      [] tz = "Asia/Kolkata" -> 5 * 60 + 30
      [] OTHER -> 0

\* the instant of row i's timestamp (a naive timestamp counts as UTC, as
\* process_data takes it) and the wall-clock time it shows
Instant(data, i) == data.rows[i].t
Wall(data, i) == data.rows[i].t + UtcOffset(data.tz, data.rows[i].t)

\* DatetimeIndex.tz_localize of a naive index: the wall-clock values are taken
\* as times in tz and become instants (for 'UTC', the only zone the program
\* localizes to, unchanged)
tz_localize(data, tz) ==
    [data EXCEPT !.tz = tz,
                 !.rows = [i \in DOMAIN data.rows |->
                             [data.rows[i] EXCEPT !.t = @ - UtcOffset(tz, @)]]]

\* DatetimeIndex.tz_convert: the instants stay, the zone they are shown in changes
tz_convert(data, tz) == [data EXCEPT !.tz = tz]

\* DataFrame.reset_index: the index becomes the first column, under the index's
\* name, and a RangeIndex replaces it
reset_index(data) ==
    [data EXCEPT !.index = "RangeIndex", !.index_name = "",
                 !.columns = <<data.index_name>> \o data.columns]

\* DataFrame.rename(columns={old: new})
rename(data, old, new) ==
    [data EXCEPT !.columns = [i \in DOMAIN data.columns |->
                                 IF data.columns[i] = old THEN new ELSE data.columns[i]]]

\* process_data with a variant that converts only what it localized itself
process_data_only_naive(data) ==
    IF data.index # "DatetimeIndex" THEN Raised("AttributeError")
    ELSE LET conv == IF data.tz = "naive" THEN tz_convert(tz_localize(data, "UTC"), "US/Eastern")
                     ELSE data
         IN  rename(reset_index(conv), "Date", "Datetime")

\* process_data: data.index.tzinfo exists only on a DatetimeIndex
process_data(data) ==
    IF data.index # "DatetimeIndex" THEN Raised("AttributeError")
    ELSE LET localized == IF data.tz = "naive" THEN tz_localize(data, "UTC") ELSE data
             converted == tz_convert(localized, "US/Eastern")
         IN  rename(reset_index(converted), "Date", "Datetime")

\* add_technical_indicators, add_more_indicators: the values are the
\* indicator library's; the program names the columns
add_technical_indicators(data) ==
    [data EXCEPT !.columns = data.columns \o <<"SMA_20", "EMA_20">>]

add_more_indicators(data) ==
    [data EXCEPT !.columns = data.columns \o <<"RSI", "MACD", "MACD_Signal">>]

\* data[name]: a TypeError on None, a KeyError on a missing column
Subscript(data, name) ==
    IF IsNone(data) THEN "TypeError"
    ELSE IF name \notin Range(data.columns) THEN "KeyError"
    ELSE "ok"

Close(data)  == [i \in DOMAIN data.rows |-> data.rows[i].Close]
High(data)   == [i \in DOMAIN data.rows |-> data.rows[i].High]
Low(data)    == [i \in DOMAIN data.rows |-> data.rows[i].Low]
Open(data)   == [i \in DOMAIN data.rows |-> data.rows[i].Open]
Volume(data) == [i \in DOMAIN data.rows |-> data.rows[i].Volume]

\* Series.max, Series.min, Series.sum
SeriesMax(s) == CHOOSE x \in Range(s) : \A y \in Range(s) : y <= x
SeriesMin(s) == CHOOSE x \in Range(s) : \A y \in Range(s) : x <= y

RECURSIVE SeriesSum(_)
SeriesSum(s) == IF s = <<>> THEN 0 ELSE Head(s) + SeriesSum(Tail(s))

\* (change / prev_close) * 100 in float64
PctChange(change, prev_close) == FMulInt(FDivInt(change, prev_close), 100)

NoMetrics == [last_close |-> 0, change |-> 0, pct_change |-> FZero,
              high |-> 0, low |-> 0, volume |-> 0, exc |-> "unset"]

\* calculate_metrics with the High and Low columns taken for one another
calculate_metrics_swapped(data) ==
    IF data.rows = <<>> THEN [NoMetrics EXCEPT !.exc = "IndexError"]
    ELSE LET last_close == Close(data)[Len(data.rows)]
             prev_close == Close(data)[1]
             change     == last_close - prev_close
         IN  [last_close |-> last_close, change |-> change,
              pct_change |-> PctChange(change, prev_close),
              high |-> SeriesMin(Low(data)), low |-> SeriesMax(High(data)),
              volume |-> SeriesSum(Volume(data)), exc |-> "none"]

\* calculate_metrics with the reference close taken from the last row but one
calculate_metrics_prev_row(data) ==
    IF data.rows = <<>> THEN [NoMetrics EXCEPT !.exc = "IndexError"]
    ELSE LET n          == Len(data.rows)
             last_close == Close(data)[n]
             prev_close == Close(data)[IF n > 1 THEN n - 1 ELSE 1]
             change     == last_close - prev_close
         IN  [last_close |-> last_close, change |-> change,
              pct_change |-> PctChange(change, prev_close),
              high |-> SeriesMax(High(data)), low |-> SeriesMin(Low(data)),
              volume |-> SeriesSum(Volume(data)), exc |-> "none"]

\* calculate_metrics: .iloc[-1] and .iloc[0] raise IndexError on no rows
calculate_metrics(data) ==
    IF data.rows = <<>> THEN [NoMetrics EXCEPT !.exc = "IndexError"]
    ELSE LET last_close == Close(data)[Len(data.rows)]
             prev_close == Close(data)[1]
             change     == last_close - prev_close
         IN  [last_close |-> last_close, change |-> change,
              pct_change |-> PctChange(change, prev_close),
              high |-> SeriesMax(High(data)), low |-> SeriesMin(Low(data)),
              volume |-> SeriesSum(Volume(data)), exc |-> "none"]

(***************************************************************************)
(* The market-data provider (yf.download) and fetch_stock_data.            *)
(***************************************************************************)
stock_names == <<"AAPL", "GOOGL", "MSFT", "AMZN", "TSLA", "NFLX", "NVDA", "META",
                 "BABA", "ADBE", "INTC", "RELIANCE.NS", "TCS.NS">>

Periods == {"1d", "1wk", "1mo", "1y", "max"}
custom_intervals == {"1m", "5m", "15m", "30m", "1h", "1d", "1wk"}

\* timedelta(days=7), in the clock's unit (hours)
Week == 7 * 24

\* The keyword arguments of one yf.download call: period is "" and range is
\* <<start, end>> when an explicit range is sent, range is <<>> otherwise.
Request(ticker, period, range, interval) ==
    [ticker |-> ticker, period |-> period, range |-> range, interval |-> interval]

\* fetch_stock_data without the 1wk branch: every period token passed through
fetch_stock_data_native_week(ticker, period, interval, now, response) ==
    LET request == Request(ticker, period, <<>>, interval)
    IN  IF response.index = "Exception"
        THEN [ret |-> None, notice |-> "error", exc |-> "none", requests |-> <<request>>]
        ELSE IF Empty(response)
        THEN [ret |-> None, notice |-> "warning", exc |-> "none", requests |-> <<request>>]
        ELSE [ret |-> response, notice |-> "none", exc |-> "none", requests |-> <<request>>]

\* fetch_stock_data without the except clause
fetch_stock_data_no_except(ticker, period, interval, now, response) ==
    LET request == IF period = "1wk"
                   THEN Request(ticker, "", <<now - Week, now>>, interval)
                   ELSE Request(ticker, period, <<>>, interval)
    IN  IF response.index = "Exception"
        THEN [ret |-> None, notice |-> "none", exc |-> "Exception", requests |-> <<request>>]
        ELSE IF Empty(response)
        THEN [ret |-> None, notice |-> "warning", exc |-> "none", requests |-> <<request>>]
        ELSE [ret |-> response, notice |-> "none", exc |-> "none", requests |-> <<request>>]

\* fetch_stock_data(ticker, period, interval) at the time `now`, the provider
\* answering `response` (a frame, or Raised("Exception")).  The result: the
\* value returned, the notice shown (st.warning / st.error), the exception
\* that leaves the function ("none": the except clause catches every
\* Exception) and the provider calls made.
fetch_stock_data(ticker, period, interval, now, response) ==
    LET end_date == now
        request  == IF period = "1wk"
                    THEN LET start_date == end_date - Week
                         IN  Request(ticker, "", <<start_date, end_date>>, interval)
                    ELSE IF period = "1d"
                    THEN Request(ticker, "1d", <<>>, interval)
                    ELSE Request(ticker, period, <<>>, interval)
    IN  IF response.index = "Exception"
        THEN [ret |-> None, notice |-> "error", exc |-> "none", requests |-> <<request>>]
        ELSE IF Empty(response)
        THEN [ret |-> None, notice |-> "warning", exc |-> "none", requests |-> <<request>>]
        ELSE [ret |-> response, notice |-> "none", exc |-> "none", requests |-> <<request>>]

(***************************************************************************)
(* Bars and frames the provider can answer with.  A bar has                *)
(* Low <= Open, Close <= High and Volume >= 0, and the provider's rows     *)
(* are in chronological order.                                             *)
(***************************************************************************)
Bar(o, h, l, c, v) == [Open |-> o, High |-> h, Low |-> l, Close |-> c, Volume |-> v]

Bars == << Bar(99, 101, 98, 100, 10), Bar(100, 104, 100, 102, 0),
           Bar(102, 102, 101, 101, 5), Bar(101, 106, 101, 105, 7),
           Bar(107, 107, 107, 107, 3) >>

\* the greatest number of rows of a frame
MaxRows == 5

\* the timestamps of the frames: SlotMinutes apart, from the model's epoch
MaxSlots == 4
SlotMinutes == 3 * 60
Times == {k * SlotMinutes : k \in 0..MaxSlots}

Zones == {"naive", "UTC", "America/New_York", "Asia/Kolkata", "US/Eastern"}

\* the frame yf.download returns for the bars `bars` at the instants `times`
ProviderFrame(index_name, tz, times, bars) ==
    [index |-> "DatetimeIndex", index_name |-> index_name, tz |-> tz, columns |-> OHLCV,
     rows |-> [i \in DOMAIN bars |->
                 [t |-> times[i], Open |-> bars[i].Open, High |-> bars[i].High,
                  Low |-> bars[i].Low, Close |-> bars[i].Close, Volume |-> bars[i].Volume]]]

EmptyFrame == ProviderFrame("Date", "naive", <<>>, <<>>)

\* the elements of a set of numbers in ascending order
RECURSIVE Ascending(_)
Ascending(S) == IF S = {} THEN <<>>
                ELSE LET m == CHOOSE x \in S : \A y \in S : x <= y
                     IN  <<m>> \o Ascending(S \ {m})

DailyFrame == ProviderFrame("Date", "naive", <<0, 24 * 60>>, SubSeq(Bars, 1, 2))
IntradayFrame == ProviderFrame("Datetime", "America/New_York",
                               <<6 * 60, 7 * 60, 8 * 60>>, SubSeq(Bars, 3, 5))

\* what one yf.download call can do
ProviderOutcomes == {Raised("Exception"), EmptyFrame, DailyFrame, IntradayFrame}

(***************************************************************************)
(* The script: one render pass.                                            *)
(***************************************************************************)
VARIABLES
    pc,             \* where the pass is: "primary", "compare", "watchlist",
                    \* "about", "done", or "aborted" (an uncaught exception)
    sel,            \* the sidebar selections of this pass
    clock,          \* datetime.now(), in hours
    data,           \* the script's variable data (None until line 106 sets it)
    compare_data,   \* compare_data
    real_time_data, \* real_time_data
    metrics,        \* last_close, change, pct_change, high, low, volume (line 111)
    quote,          \* last_price, change, pct_change of the watchlist loop
    sym,            \* the loop's position in stock_names
    calls,          \* the yf.download calls made so far, in order
    main,           \* the widgets of the main area, in order (notices apart)
    fig,            \* the traces of the price chart
    fig_compare,    \* the traces of the comparison chart
    notices,        \* how many st.warning and st.error notices are shown
    sidebar,        \* the sidebar: header shown, readouts shown, About shown
    branch,         \* the branch run last: its fetch and what it rendered
    exception       \* the exception that ended the pass, "none" otherwise

rvars == <<pc, sel, clock, data, compare_data, real_time_data, metrics, quote, sym,
           calls, main, fig, fig_compare, notices, sidebar, branch, exception>>

VARIABLES
    f_in, f_out,            \* fetch_stock_data: arguments and result
    n_in, n_out, n_twice,   \* process_data: input, output, output processed again
    m_data, m_out           \* calculate_metrics: input and result

fvars == <<f_in, f_out>>
nvars == <<n_in, n_out, n_twice>>
mvars == <<m_data, m_out>>

vars == <<rvars, fvars, nvars, mvars>>

\* the clock stops here
MaxClock == 1

\* the selections the passes are run with
Selection(t, p, i, c, ind, ct) ==
    [ticker |-> t, time_period |-> p, interval |-> i, chart_type |-> c,
     indicators |-> ind, compare_ticker |-> ct]

Selections ==
    { Selection("AAPL", "1d", "1m", "Candlestick", <<>>, "AAPL"),
      Selection("MSFT", "1wk", "1h", "Line", <<"RSI", "SMA 20">>, "GOOGL"),
      Selection("TCS.NS", "max", "1d", "Candlestick",
                <<"MACD", "EMA 20", "SMA 20", "RSI">>, "RELIANCE.NS") }

NoQuote == [last_price |-> 0, change |-> 0, pct_change |-> FZero]
NoBranch == [name |-> "", ret |-> "", notice |-> "", widgets |-> <<>>]

\* the sub-charts the indicator loop draws (lines 139-144)
RECURSIVE IndicatorCharts(_)
IndicatorCharts(indicators) ==
    IF indicators = <<>> THEN <<>>
    ELSE (CASE Head(indicators) = "RSI"  -> <<"subheader:RSI Indicator", "line_chart:RSI">>
            [] Head(indicators) = "MACD" -> <<"subheader:MACD Indicator", "line_chart:MACD">>
            [] OTHER -> <<>>)
         \o IndicatorCharts(Tail(indicators))

\* the traces of the price chart (lines 121-138)
RECURSIVE IndicatorTraces(_)
IndicatorTraces(indicators) ==
    IF indicators = <<>> THEN <<>>
    ELSE (IF Head(indicators) \in {"SMA 20", "EMA 20"} THEN <<Head(indicators)>> ELSE <<>>)
         \o IndicatorTraces(Tail(indicators))

PriceTraces(s) ==
    <<IF s.chart_type = "Candlestick" THEN "Candlestick" ELSE "Close Price">>
    \o IndicatorTraces(s.indicators)

\* what lines 113-165 put on the page
Dashboard(s) ==
    <<"metric:Last Price", "metric:High", "metric:Low", "metric:Volume">>
    \o IndicatorCharts(s.indicators)
    \o <<"plotly_chart:fig", "subheader:Historical Data", "dataframe:OHLCV",
         "subheader:Technical Indicators", "dataframe:indicators", "download_button:csv">>

\* the first of the subscripts that fails, "none" if none does
RECURSIVE FirstError(_)
FirstError(results) ==
    IF results = <<>> THEN "none"
    ELSE IF Head(results) # "ok" THEN Head(results) ELSE FirstError(Tail(results))

\* Lines 107-165 after the fetch f: the exception that ends the pass ("none"
\* if none), the value of data, the metrics, the widgets drawn, the chart.
PrimaryBranch(f, s) ==
    LET skip == [exc |-> "none", data |-> f.ret, metrics |-> NoMetrics,
                 widgets |-> <<>>, fig |-> <<>>]
    IN  IF f.exc # "none" THEN [skip EXCEPT !.exc = f.exc]
        ELSE IF IsNone(f.ret) THEN skip
        ELSE LET p == process_data(f.ret)
                 d == add_more_indicators(add_technical_indicators(p))
                 m == calculate_metrics(d)
                 e == FirstError(<<Subscript(d, "Datetime"), Subscript(d, "Close")>>)
             IN  IF ~IsFrame(p) THEN [skip EXCEPT !.exc = p.index]
                 ELSE IF m.exc # "none" THEN [skip EXCEPT !.exc = m.exc, !.data = d]
                 ELSE IF e # "none" THEN [skip EXCEPT !.exc = e, !.data = d]
                 ELSE [exc |-> "none", data |-> d, metrics |-> m,
                       widgets |-> Dashboard(s), fig |-> PriceTraces(s)]

\* lines 169-178 with process_data called before the guard
CompareBranchUnguarded(f, d, s) ==
    LET skip == [exc |-> "none", compare_data |-> f.ret, widgets |-> <<>>, fig |-> <<>>]
        p == process_data(f.ret)
    IN  IF ~IsFrame(p) THEN [skip EXCEPT !.exc = p.index]
        ELSE [exc |-> "none", compare_data |-> p,
              widgets |-> <<"plotly_chart:fig_compare">>,
              fig |-> <<s.ticker, s.compare_ticker>>]

\* Lines 169-178 after the fetch f, data being d: line 172 subscripts data,
\* which is None when the primary fetch gave nothing.
CompareBranch(f, d, s) ==
    LET skip == [exc |-> "none", compare_data |-> f.ret, widgets |-> <<>>, fig |-> <<>>]
    IN  IF f.exc # "none" THEN [skip EXCEPT !.exc = f.exc]
        ELSE IF IsNone(f.ret) THEN skip
        ELSE LET p == process_data(f.ret)
                 e == FirstError(<<Subscript(d, "Datetime"), Subscript(d, "Close"),
                                   Subscript(p, "Datetime"), Subscript(p, "Close")>>)
             IN  IF ~IsFrame(p) THEN [skip EXCEPT !.exc = p.index]
                 ELSE IF e # "none" THEN [skip EXCEPT !.exc = e, !.compare_data = p]
                 ELSE [exc |-> "none", compare_data |-> p,
                       widgets |-> <<"plotly_chart:fig_compare">>,
                       fig |-> <<s.ticker, s.compare_ticker>>]

\* Lines 184-189 after the fetch f: the sidebar readout of one symbol.
WatchBranch(f) ==
    LET skip == [exc |-> "none", real_time_data |-> f.ret, quote |-> NoQuote,
                 widgets |-> <<>>]
    IN  IF f.exc # "none" THEN [skip EXCEPT !.exc = f.exc]
        ELSE IF IsNone(f.ret) \/ Empty(f.ret) THEN skip
        ELSE LET p          == process_data(f.ret)
                 last_price == Close(p)[Len(p.rows)]
                 change     == last_price - Open(p)[1]
             IN  IF ~IsFrame(p) THEN [skip EXCEPT !.exc = p.index]
                 ELSE [exc |-> "none", real_time_data |-> p,
                       quote |-> [last_price |-> last_price, change |-> change,
                                  pct_change |-> PctChange(change, Open(p)[1])],
                       widgets |-> <<"sidebar.metric">>]

Shown(n, notice) ==
    CASE notice = "warning" -> [n EXCEPT !.warning = @ + 1]
      [] notice = "error"   -> [n EXCEPT !.error = @ + 1]
      [] OTHER -> n

Ret(f) == IF IsNone(f.ret) THEN "None" ELSE "data"

\* the script's state at its first line, with the selections s
PassStart(s) ==
    [pc |-> "primary", sel |-> s, data |-> None, compare_data |-> None,
     real_time_data |-> None, metrics |-> NoMetrics, quote |-> NoQuote, sym |-> 1,
     calls |-> <<>>, main |-> <<>>, fig |-> <<>>, fig_compare |-> <<>>,
     notices |-> [warning |-> 0, error |-> 0],
     sidebar |-> [header |-> FALSE, readouts |-> 0, about |-> FALSE],
     branch |-> NoBranch, exception |-> "none"]

\* the time a fetch takes: the clock may have moved on at the next one
Elapse == \E later \in 0..1 : clock + later <= MaxClock /\ clock' = clock + later

\* lines 106-165
Primary ==
    /\ pc = "primary"
    /\ \E response \in ProviderOutcomes :
         LET f == fetch_stock_data(sel.ticker, sel.time_period, sel.interval, clock, response)
             b == PrimaryBranch(f, sel)
         IN  /\ calls' = calls \o f.requests
             /\ notices' = Shown(notices, f.notice)
             /\ data' = b.data
             /\ metrics' = b.metrics
             /\ main' = main \o b.widgets
             /\ fig' = b.fig
             /\ branch' = [name |-> "primary", ret |-> Ret(f), notice |-> f.notice,
                           widgets |-> b.widgets]
             /\ exception' = b.exc
             /\ pc' = IF b.exc = "none" THEN "compare" ELSE "aborted"
    /\ Elapse
    /\ UNCHANGED <<sel, compare_data, real_time_data, quote, sym, fig_compare, sidebar>>

\* lines 168-181
Compare ==
    /\ pc = "compare"
    /\ \E response \in ProviderOutcomes :
         LET f == fetch_stock_data(sel.compare_ticker, sel.time_period, sel.interval,
                                   clock, response)
             b == CompareBranch(f, data, sel)
         IN  /\ calls' = calls \o f.requests
             /\ notices' = Shown(notices, f.notice)
             /\ compare_data' = b.compare_data
             /\ main' = main \o b.widgets
             /\ fig_compare' = b.fig
             /\ branch' = [name |-> "compare", ret |-> Ret(f), notice |-> f.notice,
                           widgets |-> b.widgets]
             /\ exception' = b.exc
             /\ sidebar' = [sidebar EXCEPT !.header = (b.exc = "none")]
             /\ pc' = IF b.exc = "none" THEN "watchlist" ELSE "aborted"
    /\ Elapse
    /\ UNCHANGED <<sel, data, real_time_data, metrics, quote, sym, fig>>

\* lines 182-189, one symbol
Watch ==
    /\ pc = "watchlist"
    /\ \E response \in ProviderOutcomes :
         LET f == fetch_stock_data(stock_names[sym], "1d", "1m", clock, response)
             b == WatchBranch(f)
         IN  /\ calls' = calls \o f.requests
             /\ notices' = Shown(notices, f.notice)
             /\ real_time_data' = b.real_time_data
             /\ quote' = b.quote
             /\ sidebar' = [sidebar EXCEPT !.readouts = @ + Len(b.widgets)]
             /\ branch' = [name |-> stock_names[sym], ret |-> Ret(f), notice |-> f.notice,
                           widgets |-> b.widgets]
             /\ exception' = b.exc
             /\ sym' = sym + 1
             /\ pc' = IF b.exc # "none" THEN "aborted"
                      ELSE IF sym = Len(stock_names) THEN "about" ELSE "watchlist"
    /\ Elapse
    /\ UNCHANGED <<sel, data, compare_data, metrics, main, fig, fig_compare>>

\* lines 192-193
About ==
    /\ pc = "about"
    /\ sidebar' = [sidebar EXCEPT !.about = TRUE]
    /\ pc' = "done"
    /\ UNCHANGED <<sel, clock, data, compare_data, real_time_data, metrics, quote, sym,
                   calls, main, fig, fig_compare, notices, branch, exception>>

\* a change of a selection or the auto-refresh timer (line 99) runs the script
\* again from the top
Rerun ==
    /\ pc \in {"done", "aborted"}
    /\ \E s \in Selections :
         LET start == PassStart(s)
         IN  /\ pc' = start.pc /\ sel' = start.sel /\ data' = start.data
             /\ compare_data' = start.compare_data
             /\ real_time_data' = start.real_time_data
             /\ metrics' = start.metrics /\ quote' = start.quote /\ sym' = start.sym
             /\ calls' = start.calls /\ main' = start.main /\ fig' = start.fig
             /\ fig_compare' = start.fig_compare /\ notices' = start.notices
             /\ sidebar' = start.sidebar /\ branch' = start.branch
             /\ exception' = start.exception
    /\ UNCHANGED clock

IdleF == f_in = <<>> /\ f_out = <<>>
IdleN == n_in = None /\ n_out = None /\ n_twice = None
IdleM == m_data = None /\ m_out = NoMetrics
InitPass(s) ==
    LET start == PassStart(s)
    IN  /\ pc = start.pc /\ sel = start.sel /\ data = start.data
        /\ compare_data = start.compare_data /\ real_time_data = start.real_time_data
        /\ metrics = start.metrics /\ quote = start.quote /\ sym = start.sym
        /\ calls = start.calls /\ main = start.main /\ fig = start.fig
        /\ fig_compare = start.fig_compare /\ notices = start.notices
        /\ sidebar = start.sidebar /\ branch = start.branch
        /\ exception = start.exception
        /\ clock = 0

IdleR == InitPass(Selection("", "", "", "", <<>>, ""))

Init == (\E s \in Selections : InitPass(s)) /\ IdleF /\ IdleN /\ IdleM

Next == \/ Primary /\ UNCHANGED <<fvars, nvars, mvars>>
        \/ Compare /\ UNCHANGED <<fvars, nvars, mvars>>
        \/ Watch /\ UNCHANGED <<fvars, nvars, mvars>>
        \/ About /\ UNCHANGED <<fvars, nvars, mvars>>
        \/ Rerun /\ UNCHANGED <<fvars, nvars, mvars>>

Spec == Init /\ [][Next]_vars

(***************************************************************************)
(* fetch_stock_data on its own: every ticker, period and interval, at two  *)
(* times, against every answer of the provider.                            *)
(***************************************************************************)
InitFetch ==
    /\ f_in \in [ticker : Range(stock_names), period : Periods, interval : custom_intervals,
                 now : 0..MaxClock, response : ProviderOutcomes]
    /\ f_out = <<>>
    /\ IdleR /\ IdleN /\ IdleM

Fetch ==
    /\ f_out = <<>>
    /\ f_out' = <<fetch_stock_data(f_in.ticker, f_in.period, f_in.interval, f_in.now,
                                   f_in.response)>>
    /\ UNCHANGED <<f_in, rvars, nvars, mvars>>

NextFetch == Fetch

SpecFetch == InitFetch /\ [][NextFetch]_vars

(***************************************************************************)
(* process_data on its own: frames as the provider returns them, in every  *)
(* zone, with their rows in chronological order.                           *)
(***************************************************************************)
BarsFor(n) == [i \in 1..n |-> Bars[((i - 1) % Len(Bars)) + 1]]

NormalizeInputs ==
    { ProviderFrame(name, tz, Ascending(T), BarsFor(Cardinality(T))) :
        name \in {"Date", "Datetime"}, tz \in Zones, T \in (SUBSET Times) \ {{}} }

Pending == Raised("pending")

InitNormalize ==
    /\ n_in \in NormalizeInputs
    /\ n_out = Pending /\ n_twice = Pending
    /\ IdleR /\ IdleF /\ IdleM

NormalizeOnce ==
    /\ n_out = Pending
    /\ n_out' = process_data(n_in)
    /\ UNCHANGED <<n_in, n_twice, rvars, fvars, mvars>>

NormalizeAgain ==
    /\ n_out # Pending /\ n_twice = Pending
    /\ n_twice' = process_data(n_out)
    /\ UNCHANGED <<n_in, n_out, rvars, fvars, mvars>>

NextNormalize == NormalizeOnce \/ NormalizeAgain

SpecNormalize == InitNormalize /\ [][NextNormalize]_vars

(***************************************************************************)
(* calculate_metrics on its own: every series of up to MaxRows of the      *)
(* bars, normalized.                                                       *)
(***************************************************************************)
MetricsInputs ==
    { process_data(ProviderFrame("Datetime", "UTC",
                                 [i \in DOMAIN pick |-> i * SlotMinutes],
                                 [i \in DOMAIN pick |-> Bars[pick[i]]])) :
        pick \in UNION {[1..n -> DOMAIN Bars] : n \in 1..MaxRows} }

InitMetrics ==
    /\ m_data \in MetricsInputs
    /\ m_out = NoMetrics
    /\ IdleR /\ IdleF /\ IdleN

Metrics ==
    /\ m_out.exc = "unset"
    /\ m_out' = calculate_metrics(m_data)
    /\ UNCHANGED <<m_data, rvars, fvars, nvars>>

NextMetrics == Metrics

SpecMetrics == InitMetrics /\ [][NextMetrics]_vars
(***************************************************************************)
(* The claims.                                                             *)
(***************************************************************************)
FullDashboard ==
    {"metric:Last Price", "metric:High", "metric:Low", "metric:Volume",
     "plotly_chart:fig", "dataframe:OHLCV", "dataframe:indicators", "download_button:csv"}

\* C1: whatever the fetches give, the pass is never aborted and reaches the
\* About section, with every section whose fetch gave data rendered and the
\* others skipped.
C1_PassRunsToCompletion ==
    /\ pc # "aborted"
    /\ pc = "done" =>
         /\ sidebar.about
         /\ (~IsNone(data)) = (FullDashboard \subseteq Range(main))
         /\ (~IsNone(compare_data)) = ("plotly_chart:fig_compare" \in Range(main))
         /\ sidebar.readouts + notices.warning + notices.error
              = Len(stock_names) + (IF IsNone(data) THEN 1 ELSE 0)
                                 + (IF IsNone(compare_data) THEN 1 ELSE 0)

\* C2: a branch whose fetch returned None renders nothing but its notice, and
\* a pass in which a fetch returned None does not crash.
C2_NoDataBranchSkipped ==
    /\ branch.ret = "None" => branch.widgets = <<>> /\ branch.notice # "none"
    /\ notices.warning + notices.error > 0 => pc # "aborted"

\* C3: with data from the primary fetch and none from the comparison fetch,
\* the whole primary dashboard is on the page, the comparison chart is not,
\* and the pass goes on to the watchlist sidebar.
C3_CompareFailureLeavesPrimary ==
    (branch.name = "compare" /\ branch.ret = "None" /\ ~IsNone(data)) =>
        /\ pc = "watchlist" /\ exception = "none" /\ sidebar.header
        /\ FullDashboard \subseteq Range(main)
        /\ "plotly_chart:fig_compare" \notin Range(main)
        /\ fig # <<>> /\ fig_compare = <<>>
        /\ metrics.exc = "none"

C3_Witness ==
    /\ branch.name = "compare" /\ branch.ret = "None" /\ branch.notice = "error"
    /\ ~IsNone(data) /\ sel.indicators # <<>>

\* C4: a pass that has ended has made its 15 provider calls, each once, in
\* order: the primary ticker and the comparison ticker with the selected
\* period and interval, then the 13 watchlist symbols with 1d / 1m.
C4_EveryFetchIssuedOnce ==
    pc \in {"done", "aborted"} =>
        /\ Len(calls) = 2 + Len(stock_names)
        /\ calls[1].ticker = sel.ticker /\ calls[1].interval = sel.interval
        /\ calls[2].ticker = sel.compare_ticker /\ calls[2].interval = sel.interval
        /\ calls[1].period = calls[2].period
        /\ calls[1].period = (IF sel.time_period = "1wk" THEN "" ELSE sel.time_period)
        /\ \A i \in DOMAIN stock_names :
             calls[2 + i] = Request(stock_names[i], "1d", <<>>, "1m")

\* C5: fetch_stock_data lets no exception out; a raising provider gives the
\* error notice and None, an empty table the warning and None, and only a
\* non-empty table is returned.
C5_FetchNeverRaises ==
    f_out # <<>> =>
        LET r == f_out[1]
            response == f_in.response
        IN  /\ r.exc = "none"
            /\ response.index = "Exception" => IsNone(r.ret) /\ r.notice = "error"
            /\ (response.index # "Exception" /\ response.rows = <<>>) =>
                   IsNone(r.ret) /\ r.notice = "warning"
            /\ response.rows # <<>> => r.ret = response /\ r.notice = "none"

C5_Witness == f_out # <<>> /\ f_in.response.index = "Exception"

\* C6: one provider call per invocation, with the ticker and interval passed
\* through; 1wk sends the range <<now - 7 days, now>> and no period token, 1d
\* sends period 1d, every other period is sent as it is.
C6_RequestFromPeriod ==
    f_out # <<>> =>
        LET r == f_out[1] IN
        /\ Len(r.requests) = 1
        /\ r.requests[1].ticker = f_in.ticker
        /\ r.requests[1].interval = f_in.interval
        /\ f_in.period = "1wk" =>
              /\ r.requests[1].period = ""
              /\ r.requests[1].range = <<f_in.now - 7 * 24, f_in.now>>
        /\ f_in.period # "1wk" =>
              /\ r.requests[1].period = f_in.period
              /\ r.requests[1].range = <<>>

C6_Witness == f_out # <<>> /\ f_in.period = "1wk" /\ f_in.now > 0

ExampleCloses == <<100, 102, 101, 105, 107>>

\* the volumes of the first n rows, added up
RECURSIVE VolumeUpTo(_, _)
VolumeUpTo(rows, n) == IF n = 0 THEN 0 ELSE VolumeUpTo(rows, n - 1) + rows[n].Volume

\* what C7 says of every field but pct_change
MetricsFields ==
    LET rows == m_data.rows IN
    /\ m_out.last_close = rows[Len(rows)].Close
    /\ m_out.change = rows[Len(rows)].Close - rows[1].Close
    /\ \E i \in DOMAIN rows : rows[i].High = m_out.high
    /\ \A i \in DOMAIN rows : rows[i].High <= m_out.high
    /\ \E i \in DOMAIN rows : rows[i].Low = m_out.low
    /\ \A i \in DOMAIN rows : rows[i].Low >= m_out.low
    /\ m_out.volume = VolumeUpTo(rows, Len(rows))

\* exact arithmetic on limbs, to compare a float64 with the exact percentage
BigMulSmall(x, c) == BigNorm(BigMulAdd(x, c, 0))

\* x * Base^k
BigShlLimbs(x, k) == IF x = <<>> THEN <<>> ELSE x \o [i \in 1..k |-> 0]

RECURSIVE LexLeq(_, _)
LexLeq(x, y) == IF x = <<>> THEN TRUE
                ELSE IF Head(x) # Head(y) THEN Head(x) < Head(y)
                ELSE LexLeq(Tail(x), Tail(y))

\* x <= y
BigLeq(x, y) == IF Len(x) # Len(y) THEN Len(x) < Len(y) ELSE LexLeq(x, y)

\* a natural number below 2^39 as limbs
BigSmall(n) == BigStrip(<<n \div (Base * Base), (n \div Base) % Base, n % Base>>)

\* the float64 x is within two units in the last place of 100 * c / p (p > 0):
\* | sig * p - 100 |c| 2^-exp | <= 2 p
PctWithinTwoUlps(x, c, p) ==
    IF c = 0 THEN x = FZero
    ELSE /\ x.cls = "finite" /\ x.neg = (c < 0) /\ x.exp < 0
         /\ LET k == -x.exp
                A == BigMulSmall(x.sig, p)
                B == BigShlLimbs(BigSmall(100 * Abs(c) * 2^(k % 13)), k \div 13)
            IN  /\ BigLeq(A, BigAddSmall(B, 2 * p))
                /\ BigLeq(B, BigAddSmall(A, 2 * p))

\* C7 as it was stated: the fields, and for the closes 100, 102, 101, 105, 107
\* last_close = 107, change = 7 and pct_change = 7.
C7_MetricsAsStated ==
    m_out.exc = "none" =>
        /\ MetricsFields
        /\ Close(m_data) = ExampleCloses =>
             /\ m_out.last_close = 107 /\ m_out.change = 7
             /\ m_out.pct_change = FFromInt(7)

\* C7, amended: the fields; pct_change is the float64 (change / first close)
\* * 100, within two units in the last place of the exact percentage; for the
\* closes 100, 102, 101, 105, 107 it is 7 + 2^-50 (7.000000000000001).
C7_MetricsFloat ==
    m_out.exc = "none" =>
        /\ MetricsFields
        /\ PctWithinTwoUlps(m_out.pct_change, m_out.change, m_data.rows[1].Close)
        /\ Close(m_data) = ExampleCloses =>
             /\ m_out.last_close = 107 /\ m_out.change = 7
             /\ m_out.pct_change = [cls |-> "finite", neg |-> FALSE,
                                    sig |-> <<1, 6144, 0, 0, 1>>, exp |-> -50]

C7_Witness == m_out.exc = "none" /\ Close(m_data) = ExampleCloses

\* C8: process_data applied to its own output ends without an error and gives
\* that output again.
C8_Idempotent == n_twice # Pending => IsFrame(n_twice) /\ n_twice = n_out

\* C9: the output of process_data has the timestamps as the column Datetime,
\* in US/Eastern (a naive timestamp taken as UTC), and the rows of the input
\* in their order, which is ascending by time.
C9_NormalizedSortedEastern ==
    n_out # Pending =>
        /\ n_out.index = "RangeIndex" /\ n_out.tz = "US/Eastern"
        /\ "Datetime" \in Range(n_out.columns) /\ "Date" \notin Range(n_out.columns)
        /\ Len(n_out.rows) = Len(n_in.rows)
        /\ \A i \in DOMAIN n_in.rows :
             /\ Instant(n_out, i) = n_in.rows[i].t
             /\ Wall(n_out, i) = n_in.rows[i].t - (IF n_in.rows[i].t < DstStart THEN 300 ELSE 240)
             /\ n_out.rows[i].Close = n_in.rows[i].Close
        /\ \A i, j \in DOMAIN n_out.rows : i < j => Instant(n_out, i) < Instant(n_out, j)
        /\ calculate_metrics(n_out).last_close = n_in.rows[Len(n_in.rows)].Close
        /\ calculate_metrics(n_out).change
             = n_in.rows[Len(n_in.rows)].Close - n_in.rows[1].Close

C9_Witness ==
    /\ n_out # Pending /\ IsFrame(n_out) /\ n_in.tz = "naive" /\ Len(n_in.rows) >= 3
    /\ n_in.rows[1].t < DstStart /\ n_in.rows[3].t > DstStart

\* C10: the metrics of a non-empty series have high >= low and volume >= 0.
C10_HighAboveLow ==
    m_out.exc = "none" => m_out.high >= m_out.low /\ m_out.volume >= 0

C10_Witness == m_out.exc = "none" /\ Len(m_data.rows) >= 3 /\ m_out.high > m_out.low
====
